---- MODULE Spec2Model ----
(***************************************************************************)
(* Proof-of-life verification backend: the challenge lifecycle and the     *)
(* verify / attack-sim handlers of backend/app/api/routes.py over the      *)
(* request-scoped database sessions of backend/app/core/database.py, and   *)
(* the frame analysis of backend/app/services/vision.py.                   *)
(*                                                                         *)
(* Numbers: confidences and head-turn offsets are in thousandths (0.85 is  *)
(* 850); liveness_score is in tenths of a point (60.0 is 600), the         *)
(* resolution round(., 1) leaves; times are in seconds.                    *)
(***************************************************************************)
EXTENDS Integers, Sequences, FiniteSets, TLC

\* ------------------------------------------------------------- bounds
MaxRequests == 2
MaxChallenges == 1
MaxSims == 1
MaxFrames == 4
MaxSteps == 2
MaxPrepend == 2
MaxCount == 7
MaxSimFrames == 7

\* -------------------------------------------------- program constants
CHALLENGE_EXPIRY_SECONDS == 120
MIN_CONSECUTIVE_FRAMES == 2
HEAD_TURN_THRESHOLD == 35
VERIFY_MAX_FRAMES == 60
ATTACK_MAX_FRAMES == 10
CHALLENGE_LENGTH == 3
PASS_SCORE == 600

ChallengePoolWithMouthOpen ==
    <<"blink", "turn_left", "turn_right", "smile", "brow_raise", "tongue_out", "mouth_open">>

CHALLENGE_POOL == <<"blink", "turn_left", "turn_right", "smile", "brow_raise", "tongue_out">>

Min(a, b) == IF a < b THEN a ELSE b
Max(a, b) == IF a > b THEN a ELSE b
Abs(a) == IF a < 0 THEN -a ELSE a

\* ---------------------------------------------------------------- frames
\* What one submitted frame yields downstream: whether decode_frame returns
\* an image, whether the face cascade finds a face, how many eyes and smiles
\* the cascades find in it, and the face centre's normalised offset.
MkFrame(decoded, face, eyes, smiles, offset) ==
    [decoded |-> decoded, face |-> face, eyes |-> eyes, smiles |-> smiles, offset |-> offset]

Undecodable == MkFrame(FALSE, FALSE, 0, 0, 0)
NoFace == MkFrame(TRUE, FALSE, 0, 0, 0)
Neutral == MkFrame(TRUE, TRUE, 2, 0, 0)
BlinkFrame == MkFrame(TRUE, TRUE, 0, 0, 0)
WinkFrame == MkFrame(TRUE, TRUE, 1, 0, 0)
SmileFrame == MkFrame(TRUE, TRUE, 2, 1, 0)
GrinFrame == MkFrame(TRUE, TRUE, 2, 3, 0)
TurnRightFrame == MkFrame(TRUE, TRUE, 2, 0, -400)
TurnLeftFrame == MkFrame(TRUE, TRUE, 2, 0, 400)

decode_frame(f) == f.decoded

detect_face(f) == f.face

detect_blink(f) ==
    IF f.eyes = 0 THEN <<TRUE, 850>>
    ELSE IF f.eyes = 1 THEN <<TRUE, 500>>
    ELSE <<FALSE, 100>>

detect_smile(f) ==
    IF f.smiles > 0 THEN <<TRUE, Min(1000, 500 + f.smiles * 200)>>
    ELSE <<FALSE, 0>>

detect_head_turn(f) == <<f.offset, Abs(f.offset)>>

detect_action(f, action) ==
    IF action = "blink" THEN detect_blink(f)
    ELSE IF action = "smile" THEN detect_smile(f)
    ELSE IF action = "turn_left" THEN
        LET t == detect_head_turn(f)
            detected == t[1] > HEAD_TURN_THRESHOLD
        IN  <<detected, IF detected THEN t[2] ELSE 0>>
    ELSE IF action = "turn_right" THEN
        LET t == detect_head_turn(f)
            detected == t[1] < -HEAD_TURN_THRESHOLD
        IN  <<detected, IF detected THEN t[2] ELSE 0>>
    ELSE <<FALSE, 0>>

\* ---------------------------------------------------------- the matcher
\* Indices are the source's: current_step_idx and frame_idx count from 0,
\* so step k of the loop is steps[k + 1] and frame i is frames[i + 1].
InitStepResults(steps) ==
    [i \in 1..Len(steps) |->
        [step |-> steps[i], detected |-> FALSE, confidence |-> 0, frame_idx |-> -1]]

InitMatcher(steps) ==
    [current_step_idx |-> 0,
     step_results |-> InitStepResults(steps),
     face_detected_count |-> 0,
     consecutive_detection_count |-> 0]

CheckCurrentStepNoFrameIdx(st, f, frame_idx, steps) ==
    LET d == detect_action(f, steps[st.current_step_idx + 1])
        counted == [st EXCEPT !.face_detected_count = @ + 1]
    IN  IF d[1]
        THEN IF st.consecutive_detection_count + 1 >= MIN_CONSECUTIVE_FRAMES
             THEN [counted EXCEPT
                      !.step_results[st.current_step_idx + 1] =
                          [@ EXCEPT !.detected = TRUE,
                                    !.confidence = d[2]],
                      !.current_step_idx = @ + 1,
                      !.consecutive_detection_count = 0]
             ELSE [counted EXCEPT !.consecutive_detection_count = @ + 1]
        ELSE [counted EXCEPT !.consecutive_detection_count = 0]

CheckCurrentStepCreditsLater(st, f, frame_idx, steps) ==
    LET d == detect_action(f, steps[st.current_step_idx + 1])
        counted == [st EXCEPT !.face_detected_count = @ + 1]
        later == {j \in (st.current_step_idx + 2)..Len(steps) :
                     detect_action(f, steps[j])[1]}
    IN  IF d[1]
        THEN IF st.consecutive_detection_count + 1 >= MIN_CONSECUTIVE_FRAMES
             THEN [counted EXCEPT
                      !.step_results[st.current_step_idx + 1] =
                          [@ EXCEPT !.detected = TRUE,
                                    !.confidence = d[2],
                                    !.frame_idx = frame_idx],
                      !.current_step_idx = @ + 1,
                      !.consecutive_detection_count = 0]
             ELSE [counted EXCEPT !.consecutive_detection_count = @ + 1]
        ELSE IF later # {}
        THEN LET j == CHOOSE x \in later : \A y \in later : x <= y
             IN  [counted EXCEPT
                      !.step_results[j] =
                          [@ EXCEPT !.detected = TRUE,
                                    !.confidence = detect_action(f, steps[j])[2],
                                    !.frame_idx = frame_idx],
                      !.consecutive_detection_count = 0]
        ELSE [counted EXCEPT !.consecutive_detection_count = 0]

CheckCurrentStepStoresConfidenceOnMiss(st, f, frame_idx, steps) ==
    LET d == detect_action(f, steps[st.current_step_idx + 1])
        counted == [st EXCEPT !.face_detected_count = @ + 1]
    IN  IF d[1]
        THEN IF st.consecutive_detection_count + 1 >= MIN_CONSECUTIVE_FRAMES
             THEN [counted EXCEPT
                      !.step_results[st.current_step_idx + 1] =
                          [@ EXCEPT !.detected = TRUE,
                                    !.confidence = d[2],
                                    !.frame_idx = frame_idx],
                      !.current_step_idx = @ + 1,
                      !.consecutive_detection_count = 0]
             ELSE [counted EXCEPT !.consecutive_detection_count = @ + 1]
        ELSE [counted EXCEPT
                 !.step_results[st.current_step_idx + 1].confidence = d[2],
                 !.consecutive_detection_count = 0]

CheckCurrentStepKeepsCountOnMiss(st, f, frame_idx, steps) ==
    LET d == detect_action(f, steps[st.current_step_idx + 1])
        counted == [st EXCEPT !.face_detected_count = @ + 1]
    IN  IF d[1]
        THEN IF st.consecutive_detection_count + 1 >= MIN_CONSECUTIVE_FRAMES
             THEN [counted EXCEPT
                      !.step_results[st.current_step_idx + 1] =
                          [@ EXCEPT !.detected = TRUE,
                                    !.confidence = d[2],
                                    !.frame_idx = frame_idx],
                      !.current_step_idx = @ + 1,
                      !.consecutive_detection_count = 0]
             ELSE [counted EXCEPT !.consecutive_detection_count = @ + 1]
        ELSE counted

\* The body of the frame loop after a face was found (lines 276-294).
CheckCurrentStep(st, f, frame_idx, steps) ==
    LET d == detect_action(f, steps[st.current_step_idx + 1])
        counted == [st EXCEPT !.face_detected_count = @ + 1]
    IN  IF d[1]
        THEN IF st.consecutive_detection_count + 1 >= MIN_CONSECUTIVE_FRAMES
             THEN [counted EXCEPT
                      !.step_results[st.current_step_idx + 1] =
                          [@ EXCEPT !.detected = TRUE,
                                    !.confidence = d[2],
                                    !.frame_idx = frame_idx],
                      !.current_step_idx = @ + 1,
                      !.consecutive_detection_count = 0]
             ELSE [counted EXCEPT !.consecutive_detection_count = @ + 1]
        ELSE [counted EXCEPT !.consecutive_detection_count = 0]

ProcessFrameUndecodableResets(st, f, frame_idx, steps) ==
    IF ~decode_frame(f) THEN [st EXCEPT !.consecutive_detection_count = 0]
    ELSE IF ~detect_face(f) THEN [st EXCEPT !.consecutive_detection_count = 0]
    ELSE CheckCurrentStep(st, f, frame_idx, steps)

ProcessFrameNoFaceDecrements(st, f, frame_idx, steps) ==
    IF ~decode_frame(f) THEN st
    ELSE IF ~detect_face(f) THEN [st EXCEPT !.consecutive_detection_count = @ - 1]
    ELSE CheckCurrentStep(st, f, frame_idx, steps)

\* One iteration of the frame loop past the early-exit test (lines 263-294).
ProcessFrame(st, f, frame_idx, steps) ==
    IF ~decode_frame(f) THEN st
    ELSE IF ~detect_face(f) THEN [st EXCEPT !.consecutive_detection_count = 0]
    ELSE CheckCurrentStep(st, f, frame_idx, steps)

RECURSIVE RunLoop(_, _, _, _)
RunLoop(st, frames, frame_idx, steps) ==
    IF frame_idx >= Len(frames) THEN st
    ELSE IF st.current_step_idx >= Len(steps) THEN st
    ELSE RunLoop(ProcessFrame(st, frames[frame_idx + 1], frame_idx, steps),
                 frames, frame_idx + 1, steps)

RECURSIVE SumConfidence(_, _)
SumConfidence(step_results, n) ==
    IF n = 0 THEN 0
    ELSE SumConfidence(step_results, n - 1)
         + (IF step_results[n].detected THEN step_results[n].confidence ELSE 0)

StepsPassed(step_results) ==
    Cardinality({i \in 1..Len(step_results) : step_results[i].detected})

TemporalValidNeedsTwoSteps(step_results) ==
    LET steps_passed == StepsPassed(step_results)
    IN  IF steps_passed > 1
        THEN \A i \in 0..(steps_passed - 2) :
                (step_results[i + 1].detected /\ step_results[i + 2].detected)
                    => step_results[i + 1].frame_idx < step_results[i + 2].frame_idx
        ELSE FALSE

TemporalValidUnfiltered(step_results) ==
    LET steps_passed == StepsPassed(step_results)
    IN  IF steps_passed > 0
        THEN \A i \in 0..(Len(step_results) - 2) :
                step_results[i + 1].frame_idx < step_results[i + 2].frame_idx
        ELSE FALSE

TemporalValidVacuous(step_results) ==
    LET steps_passed == StepsPassed(step_results)
    IN  \A i \in 0..(steps_passed - 2) :
            (step_results[i + 1].detected /\ step_results[i + 2].detected)
                => step_results[i + 1].frame_idx < step_results[i + 2].frame_idx

\* Lines 301-305; i ranges over Python's range(steps_passed - 1).
TemporalValid(step_results) ==
    LET steps_passed == StepsPassed(step_results)
    IN  IF steps_passed > 1
        THEN \A i \in 0..(steps_passed - 2) :
                (step_results[i + 1].detected /\ step_results[i + 2].detected)
                    => step_results[i + 1].frame_idx < step_results[i + 2].frame_idx
        ELSE steps_passed > 0

\* round(num / den, 0) for num, den > 0, ties to the even neighbour.
RoundHalfEven(num, den) ==
    LET q == num \div den
        r == num % den
    IN  IF 2 * r < den THEN q
        ELSE IF 2 * r > den THEN q + 1
        ELSE IF q % 2 = 0 THEN q ELSE q + 1

LivenessScoreUnclampedSum(step_results, face_detected_count, total_frames, total_steps) ==
    LET steps_passed == StepsPassed(step_results)
        s == IF total_steps > 0 THEN total_steps ELSE 1
        den == s * total_frames * 1000
        num == 60 * steps_passed * total_frames * 1000
               + 20 * face_detected_count * s * 1000
               + 20 * SumConfidence(step_results, Len(step_results)) * s * total_frames
    IN  RoundHalfEven(10 * num, den)

\* Lines 308-314, as one exact fraction over den, then min(100, .) and
\* round(., 1), in tenths of a point.
LivenessScore(step_results, face_detected_count, total_frames, total_steps) ==
    LET steps_passed == StepsPassed(step_results)
        s == IF total_steps > 0 THEN total_steps ELSE 1
        m == Max(steps_passed, 1)
        den == s * total_frames * m * 1000
        num == 60 * steps_passed * total_frames * m * 1000
               + 20 * face_detected_count * s * m * 1000
               + 20 * SumConfidence(step_results, Len(step_results)) * s * total_frames
    IN  RoundHalfEven(10 * Min(100 * den, num), den)

OutcomePassIgnoresSteps(st, frames, steps) ==
    LET score == LivenessScore(st.step_results, st.face_detected_count,
                               Len(frames), Len(steps))
        temporal_valid == TemporalValid(st.step_results)
    IN  [passed |-> temporal_valid /\ score >= PASS_SCORE,
         liveness_score |-> score,
         step_results |-> st.step_results,
         face_detected_count |-> st.face_detected_count,
         total_frames |-> Len(frames),
         temporal_valid |-> temporal_valid,
         error |-> "none"]

\* Lines 296-325: the outcome computed from the loop's final state.
Outcome(st, frames, steps) ==
    LET score == LivenessScore(st.step_results, st.face_detected_count,
                               Len(frames), Len(steps))
        temporal_valid == TemporalValid(st.step_results)
    IN  [passed |-> StepsPassed(st.step_results) = Len(steps)
                    /\ temporal_valid /\ score >= PASS_SCORE,
         liveness_score |-> score,
         step_results |-> st.step_results,
         face_detected_count |-> st.face_detected_count,
         total_frames |-> Len(frames),
         temporal_valid |-> temporal_valid,
         error |-> "none"]

EmptyOutcomeNoError ==
    [passed |-> FALSE, liveness_score |-> 0, step_results |-> <<>>,
     face_detected_count |-> 0, total_frames |-> 0, temporal_valid |-> FALSE,
     error |-> "none"]

\* Lines 230-240.
EmptyOutcome ==
    [passed |-> FALSE, liveness_score |-> 0, step_results |-> <<>>,
     face_detected_count |-> 0, total_frames |-> 0, temporal_valid |-> FALSE,
     error |-> "No frames provided"]

analyze_frames(frames, steps) ==
    IF Len(frames) = 0 THEN EmptyOutcome
    ELSE Outcome(RunLoop(InitMatcher(steps), frames, 0, steps), frames, steps)


\* ================================================================ state
VARIABLES
    now,              \* the wall clock, datetime.now(timezone.utc)
    challenges,       \* the committed rows of table challenges, by id
    requests,         \* the verify calls: position, session and locals
    attempts,         \* the committed rows of verification_attempts
    tokens,           \* the committed rows of access_tokens
    sim_count,        \* attack-sim calls served
    sim_response,     \* the last AttackSimResponse
    base64_frames,    \* analyze_frames: its frame list
    challenge_steps,  \* analyze_frames: its steps
    frame_idx,        \* analyze_frames: the loop's position
    matcher,          \* analyze_frames: the loop's locals
    loop_pc,          \* analyze_frames: "start", "loop" or "done"
    result,           \* analyze_frames: the returned dict
    draw_count,       \* generate_challenge_steps: its argument count
    steps_drawn,      \* generate_challenge_steps: the list steps
    available,        \* generate_challenge_steps: the list available
    draw_pc           \* generate_challenge_steps: "loop" or "done"

protocol_vars ==
    <<now, challenges, requests, attempts, tokens, sim_count, sim_response>>
analysis_vars == <<base64_frames, challenge_steps, frame_idx, matcher, loop_pc, result>>
draw_vars == <<draw_count, steps_drawn, available, draw_pc>>
vars ==
    <<now, challenges, requests, attempts, tokens, sim_response,
      base64_frames, challenge_steps, frame_idx, matcher, loop_pc, result,
      draw_count, steps_drawn, available, draw_pc>>

ChallengeIds == 1..MaxChallenges
RequestIds == 1..MaxRequests

Range(s) == {s[i] : i \in DOMAIN s}

\* ------------------------------------------------- challenge generation
\* random.choice over the pool less the previous choice: every sequence of
\* count gestures in which no two neighbours are equal.
generate_challenge_steps(count) ==
    {s \in [1..count -> Range(CHALLENGE_POOL)] :
        \A i \in 1..(count - 1) : s[i] # s[i + 1]}

\* The draw followed in the protocol specifications, where only whether the
\* analysis passes matters: a sequence the detectors can see every step of.
DrawnSteps == {<<"blink", "smile", "turn_right">>}

NoRow == [status |-> "absent", steps |-> <<>>, expires_at |-> 0, used |-> FALSE]

\* create_challenge: the row as added and flushed, not yet committed.
NewChallenge(steps, t) ==
    [status |-> "pending", steps |-> steps,
     expires_at |-> t + CHALLENGE_EXPIRY_SECONDS, used |-> FALSE]

\* The uuid4 primary key: an id no row has yet.
FreshId(c) == challenges[c].status = "absent"
                 /\ \A d \in ChallengeIds : d < c => challenges[d].status # "absent"

generate_challenge(c, steps) ==
    /\ FreshId(c)
    /\ steps \in generate_challenge_steps(CHALLENGE_LENGTH)
    /\ challenges' = [challenges EXCEPT ![c] = NewChallenge(steps, now)]
    /\ UNCHANGED <<now, requests, attempts, tokens, sim_count, sim_response>>
    /\ UNCHANGED analysis_vars
    /\ UNCHANGED draw_vars

\* get_db's commit after generate_challenge returned: the row is visible.
generate_challenge_commit(c) ==
    /\ challenges[c].status = "pending"
    /\ challenges' = [challenges EXCEPT ![c].status = "committed"]
    /\ UNCHANGED <<now, requests, attempts, tokens, sim_count, sim_response>>
    /\ UNCHANGED analysis_vars
    /\ UNCHANGED draw_vars

\* ------------------------------------------------------------- verify
NoResult ==
    [passed |-> FALSE, liveness_score |-> 0, step_results |-> <<>>,
     face_detected_count |-> 0, total_frames |-> 0, temporal_valid |-> FALSE,
     error |-> "not run"]

IdleRequest ==
    [pc |-> "idle", challenge_id |-> 0, frames |-> <<>>, steps |-> <<>>,
     used |-> FALSE, checked_at |-> 0, cv_result |-> NoResult, token |-> FALSE,
     outcome |-> "none"]

LiveRun == <<WinkFrame, BlinkFrame, SmileFrame, GrinFrame, TurnRightFrame, TurnRightFrame>>
StaticPhoto == <<Neutral, Neutral, Neutral, Neutral>>
Oversized == [i \in 1..(VERIFY_MAX_FRAMES + 1) |-> Neutral]
VerifyFrameLists == {<< >>, StaticPhoto, LiveRun, Oversized}

ValidVerifyRequestUnchecked(frames) == TRUE

\* VerifyRequest.frames: Field(min_length=1, max_length=60).
ValidVerifyRequest(frames) == Len(frames) >= 1 /\ Len(frames) <= VERIFY_MAX_FRAMES

\* Requests are numbered in the order they arrive.
Arrives(r) ==
    /\ requests[r].pc = "idle"
    /\ \A q \in RequestIds : q < r => requests[q].pc # "idle"

\* The call has ended: its locals and its session are gone.  On record stay
\* the outcome, of a call that returned a response the analysis in it, and
\* of a call turned away before any analysis the frame list it came with.
Finished(req, outcome) ==
    [req EXCEPT !.pc = "done",
                !.frames = IF outcome \in {"ok", "PipelineFailed"} THEN << >> ELSE @,
                !.steps = << >>,
                !.checked_at = 0, !.outcome = outcome,
                !.cv_result = IF outcome = "ok" THEN @ ELSE NoResult,
                !.token = IF outcome = "ok" THEN @ ELSE FALSE]

\* The request body fails validation: 422 before the handler body runs,
\* whatever challenge_id it names.
verify_invalid(r, frames) ==
    /\ Arrives(r)
    /\ ~ValidVerifyRequest(frames)
    /\ requests' = [requests EXCEPT ![r] =
            Finished([@ EXCEPT !.frames = frames], "InvalidInput")]
    /\ UNCHANGED <<now, challenges, attempts, tokens, sim_count, sim_response>>
    /\ UNCHANGED analysis_vars
    /\ UNCHANGED draw_vars

ConsumeNoExpiry(row, t) ==
    IF row.status # "committed" THEN "ChallengeNotFound"
    ELSE IF row.used THEN "ChallengeReplay"
    ELSE "consumed"

ConsumeExpiredAtDeadline(row, t) ==
    IF row.status # "committed" THEN "ChallengeNotFound"
    ELSE IF row.used THEN "ChallengeReplay"
    ELSE IF row.expires_at <= t THEN "ChallengeExpired"
    ELSE "consumed"

\* Lines 125-137: what the SELECT's row and the clock decide.
Consume(row, t) ==
    IF row.status # "committed" THEN "ChallengeNotFound"
    ELSE IF row.used THEN "ChallengeReplay"
    ELSE IF row.expires_at < t THEN "ChallengeExpired"
    ELSE "consumed"

\* Lines 125-140: SELECT the committed row, the three checks, and
\* challenge.used = True on the session's object.  A raised HTTPException
\* passes through get_db's rollback and ends the call.
verify_load(r, cid, frames) ==
    /\ Arrives(r)
    /\ ValidVerifyRequest(frames)
    /\ LET decision == Consume(challenges[cid], now)
       IN  requests' = [requests EXCEPT ![r] =
              IF decision = "consumed"
              THEN [@ EXCEPT !.pc = "analyze", !.challenge_id = cid,
                             !.frames = frames, !.steps = challenges[cid].steps,
                             !.used = TRUE, !.checked_at = now]
              ELSE Finished([@ EXCEPT !.challenge_id = cid, !.frames = frames],
                            decision)]
    /\ UNCHANGED <<now, challenges, attempts, tokens, sim_count, sim_response>>
    /\ UNCHANGED analysis_vars
    /\ UNCHANGED draw_vars

MintTokenAlways(cv_result) == TRUE

\* Line 159: a token is created and added to the session on pass only.
MintToken(cv_result) == cv_result.passed

\* Lines 143-171: the analysis in the worker thread, then the attempt and,
\* on pass, the token are added to the session.
verify_analyze(r) ==
    /\ requests[r].pc = "analyze"
    /\ LET cv == analyze_frames(requests[r].frames, requests[r].steps)
       IN  requests' = [requests EXCEPT ![r] =
              [@ EXCEPT !.pc = "flush", !.cv_result = cv, !.token = MintToken(cv)]]
    /\ UNCHANGED <<now, challenges, attempts, tokens, sim_count, sim_response>>
    /\ UNCHANGED analysis_vars
    /\ UNCHANGED draw_vars

\* Line 173: flush sends UPDATE challenges SET used and the INSERTs inside
\* the request's transaction; the UPDATE waits while another transaction
\* holds the row's lock.
RowLocked(cid, r) ==
    \E q \in RequestIds :
        q # r /\ requests[q].pc = "commit" /\ requests[q].challenge_id = cid

verify_flush(r) ==
    /\ requests[r].pc = "flush"
    /\ ~RowLocked(requests[r].challenge_id, r)
    /\ requests' = [requests EXCEPT ![r].pc = "commit"]
    /\ UNCHANGED <<now, challenges, attempts, tokens, sim_count, sim_response>>
    /\ UNCHANGED analysis_vars
    /\ UNCHANGED draw_vars

CommittedRowUsedLost(row, req) == row

\* What the committed UPDATE leaves in the row.
CommittedRow(row, req) == [row EXCEPT !.used = req.used]

AttemptOf(r, req) ==
    [by |-> r, challenge_id |-> req.challenge_id,
     liveness_score |-> req.cv_result.liveness_score,
     passed |-> req.cv_result.passed]

TokenOf(r, req) == [by |-> r, challenge_id |-> req.challenge_id]

\* Lines 175-184 and get_db's commit (database.py line 29): the response is
\* built and the transaction commits.
verify_commit(r) ==
    /\ requests[r].pc = "commit"
    /\ challenges' = [challenges EXCEPT ![requests[r].challenge_id] =
                          CommittedRow(@, requests[r])]
    /\ attempts' = attempts \cup {AttemptOf(r, requests[r])}
    /\ tokens' = IF requests[r].token
                 THEN tokens \cup {TokenOf(r, requests[r])}
                 ELSE tokens
    /\ requests' = [requests EXCEPT ![r] = Finished(@, "ok")]
    /\ UNCHANGED <<now, sim_count, sim_response>>
    /\ UNCHANGED analysis_vars
    /\ UNCHANGED draw_vars

RolledBackRowResetsUsed(row, req) == [row EXCEPT !.used = FALSE]

\* What get_db's rollback or close leaves in the stored row: nothing of
\* the transaction.
RolledBackRow(row, req) == row

\* The call is cancelled, or the analysis, the flush or the commit raises:
\* get_db rolls the transaction back (database.py lines 30-34).
verify_abort(r) ==
    /\ requests[r].pc \in {"analyze", "flush", "commit"}
    /\ challenges' = [challenges EXCEPT ![requests[r].challenge_id] =
                          RolledBackRow(@, requests[r])]
    /\ requests' = [requests EXCEPT ![r] = Finished(@, "PipelineFailed")]
    /\ UNCHANGED <<now, attempts, tokens, sim_count, sim_response>>
    /\ UNCHANGED analysis_vars
    /\ UNCHANGED draw_vars

\* --------------------------------------------------------- attack-sim
sim_steps == <<"blink", "turn_right", "smile">>

AttackRun == <<BlinkFrame, BlinkFrame, TurnRightFrame, TurnRightFrame, SmileFrame, SmileFrame>>
AttackFrameLists ==
    {StaticPhoto, AttackRun, [i \in 1..(ATTACK_MAX_FRAMES + 1) |-> Neutral]}

ValidAttackSimRequest(frames) == Len(frames) >= 1 /\ Len(frames) <= ATTACK_MAX_FRAMES

RejectionReasonScoreFirst(cv_result) ==
    IF cv_result.liveness_score < PASS_SCORE THEN "liveness too low"
    ELSE IF cv_result.face_detected_count = 0 THEN "no face"
    ELSE IF ~cv_result.temporal_valid THEN "no temporal variation"
    ELSE "failed challenge ordering"

\* Lines 216-223.
RejectionReason(cv_result) ==
    IF cv_result.face_detected_count = 0 THEN "no face"
    ELSE IF ~cv_result.temporal_valid THEN "no temporal variation"
    ELSE IF cv_result.liveness_score < PASS_SCORE THEN "liveness too low"
    ELSE "failed challenge ordering"

AttackSimResponse(cv_result) ==
    [passed |-> cv_result.passed,
     liveness_score |-> cv_result.liveness_score,
     rejection_reason |-> IF ~cv_result.passed THEN RejectionReason(cv_result)
                          ELSE "N/A",
     status |-> 200]

InvalidSimResponse ==
    [passed |-> FALSE, liveness_score |-> 0, rejection_reason |-> "none", status |-> 422]

NoSimResponse ==
    [passed |-> FALSE, liveness_score |-> 0, rejection_reason |-> "none", status |-> 0]

attack_simulation_records_attempt(frames) ==
    /\ sim_count < MaxSims
    /\ ValidAttackSimRequest(frames)
    /\ sim_count' = sim_count + 1
    /\ sim_response' = AttackSimResponse(analyze_frames(frames, sim_steps))
    /\ attempts' = attempts \cup
          {[by |-> 0, challenge_id |-> 0,
            liveness_score |-> analyze_frames(frames, sim_steps).liveness_score,
            passed |-> analyze_frames(frames, sim_steps).passed]}
    /\ UNCHANGED <<now, challenges, requests, tokens>>
    /\ UNCHANGED analysis_vars
    /\ UNCHANGED draw_vars

attack_simulation(frames) ==
    /\ sim_count < MaxSims
    /\ ValidAttackSimRequest(frames)
    /\ sim_count' = sim_count + 1
    /\ sim_response' = AttackSimResponse(analyze_frames(frames, sim_steps))
    /\ UNCHANGED <<now, challenges, requests, attempts, tokens>>
    /\ UNCHANGED analysis_vars
    /\ UNCHANGED draw_vars

attack_simulation_invalid(frames) ==
    /\ sim_count < MaxSims
    /\ ~ValidAttackSimRequest(frames)
    /\ sim_count' = sim_count + 1
    /\ sim_response' = InvalidSimResponse
    /\ UNCHANGED <<now, challenges, requests, attempts, tokens>>
    /\ UNCHANGED analysis_vars
    /\ UNCHANGED draw_vars

\* ---------------------------------------------------------------- clock
\* The clock is watched at the instants a check on it can change its mind:
\* the expiry of a challenge and the second after it.
Instants ==
    UNION {{challenges[c].expires_at, challenges[c].expires_at + 1} :
              c \in {d \in ChallengeIds : challenges[d].status # "absent"}}

Tick(t) ==
    /\ t > now
    /\ now' = t
    /\ UNCHANGED <<challenges, requests, attempts, tokens, sim_count, sim_response>>
    /\ UNCHANGED analysis_vars
    /\ UNCHANGED draw_vars

\* ------------------------------------------------- protocol specification
AnalysisIdle ==
    /\ base64_frames = << >>
    /\ challenge_steps = << >>
    /\ frame_idx = 0
    /\ matcher = InitMatcher(<< >>)
    /\ loop_pc = "off"
    /\ result = NoResult

ProtocolIdle ==
    /\ now = 0
    /\ challenges = [c \in ChallengeIds |-> NoRow]
    /\ requests = [r \in RequestIds |-> IdleRequest]
    /\ attempts = {}
    /\ tokens = {}
    /\ sim_count = 0
    /\ sim_response = NoSimResponse

DrawIdle ==
    /\ draw_count = 0
    /\ steps_drawn = << >>
    /\ available = << >>
    /\ draw_pc = "off"

Init == ProtocolIdle /\ AnalysisIdle /\ DrawIdle

Next ==
    \/ \E c \in ChallengeIds, steps \in DrawnSteps : generate_challenge(c, steps)
    \/ \E c \in ChallengeIds : generate_challenge_commit(c)
    \/ \E r \in RequestIds, frames \in VerifyFrameLists : verify_invalid(r, frames)
    \/ \E r \in RequestIds, cid \in ChallengeIds, frames \in VerifyFrameLists :
          verify_load(r, cid, frames)
    \/ \E r \in RequestIds : verify_analyze(r)
    \/ \E r \in RequestIds : verify_flush(r)
    \/ \E r \in RequestIds : verify_commit(r)
    \/ \E r \in RequestIds : verify_abort(r)
    \/ \E t \in Instants : Tick(t)

Spec == Init /\ [][Next]_vars

\* The same calls with attack-sim calls among them, the clock standing
\* still: no challenge expires.
NextSim ==
    \/ \E c \in ChallengeIds, steps \in DrawnSteps : generate_challenge(c, steps)
    \/ \E c \in ChallengeIds : generate_challenge_commit(c)
    \/ \E r \in RequestIds, frames \in VerifyFrameLists : verify_invalid(r, frames)
    \/ \E r \in RequestIds, cid \in ChallengeIds, frames \in VerifyFrameLists :
          verify_load(r, cid, frames)
    \/ \E r \in RequestIds : verify_analyze(r)
    \/ \E r \in RequestIds : verify_flush(r)
    \/ \E r \in RequestIds : verify_commit(r)
    \/ \E r \in RequestIds : verify_abort(r)
    \/ \E frames \in AttackFrameLists : attack_simulation(frames)
    \/ \E frames \in AttackFrameLists : attack_simulation_invalid(frames)

SpecSim == Init /\ [][NextSim]_vars


\* ======================================================= analyze_frames
\* The frame loop of analyze_frames, one action per way through its body,
\* over every frame list and every step list within the bounds.
FrameKinds == {Undecodable, NoFace, BlinkFrame, SmileFrame}
StepKinds == {"blink", "smile", "brow_raise"}

SeqsUpTo(S, n) == UNION {[1..k -> S] : k \in 0..n}

InitAnalyze ==
    /\ ProtocolIdle
    /\ DrawIdle
    /\ base64_frames \in SeqsUpTo(FrameKinds, MaxFrames)
    /\ challenge_steps \in SeqsUpTo(StepKinds, MaxSteps)
    /\ frame_idx = 0
    /\ matcher = InitMatcher(<< >>)
    /\ loop_pc = "start"
    /\ result = NoResult

\* Lines 230-240: no frames, no loop.
no_frames ==
    /\ loop_pc = "start"
    /\ Len(base64_frames) = 0
    /\ result' = analyze_frames(base64_frames, challenge_steps)
    /\ loop_pc' = "done"
    /\ UNCHANGED <<base64_frames, challenge_steps, frame_idx, matcher>>
    /\ UNCHANGED protocol_vars
    /\ UNCHANGED draw_vars

\* Lines 242-255.
enter_loop ==
    /\ loop_pc = "start"
    /\ Len(base64_frames) > 0
    /\ matcher' = InitMatcher(challenge_steps)
    /\ loop_pc' = "loop"
    /\ UNCHANGED <<base64_frames, challenge_steps, frame_idx, result>>
    /\ UNCHANGED protocol_vars
    /\ UNCHANGED draw_vars

AllStepsVerified == matcher.current_step_idx >= Len(challenge_steps)

Return ==
    /\ result' = Outcome(matcher, base64_frames, challenge_steps)
    /\ loop_pc' = "done"
    /\ UNCHANGED <<base64_frames, challenge_steps, frame_idx, matcher>>
    /\ UNCHANGED protocol_vars
    /\ UNCHANGED draw_vars

early_exit_after_face_count ==
    /\ loop_pc = "loop"
    /\ frame_idx < Len(base64_frames)
    /\ AllStepsVerified
    /\ matcher' = [matcher EXCEPT !.face_detected_count =
                       IF decode_frame(base64_frames[frame_idx + 1])
                          /\ detect_face(base64_frames[frame_idx + 1])
                       THEN @ + 1 ELSE @]
    /\ frame_idx' = frame_idx + 1
    /\ UNCHANGED <<base64_frames, challenge_steps, loop_pc, result>>
    /\ UNCHANGED protocol_vars
    /\ UNCHANGED draw_vars

\* Lines 260-261, then 296-325.
early_exit ==
    /\ loop_pc = "loop"
    /\ frame_idx < Len(base64_frames)
    /\ AllStepsVerified
    /\ Return

\* The for loop ran out of frames, then 296-325.
frames_exhausted ==
    /\ loop_pc = "loop"
    /\ frame_idx = Len(base64_frames)
    /\ Return

AtFrame ==
    /\ loop_pc = "loop"
    /\ frame_idx < Len(base64_frames)
    /\ ~AllStepsVerified

CurrentFrame == base64_frames[frame_idx + 1]
CurrentStep == challenge_steps[matcher.current_step_idx + 1]

Iterate ==
    /\ matcher' = ProcessFrame(matcher, CurrentFrame, frame_idx, challenge_steps)
    /\ frame_idx' = frame_idx + 1
    /\ UNCHANGED <<base64_frames, challenge_steps, loop_pc, result>>
    /\ UNCHANGED protocol_vars
    /\ UNCHANGED draw_vars

\* Lines 263-265.
skip_undecodable ==
    /\ AtFrame
    /\ ~decode_frame(CurrentFrame)
    /\ Iterate

\* Lines 271-274.
skip_no_face ==
    /\ AtFrame
    /\ decode_frame(CurrentFrame)
    /\ ~detect_face(CurrentFrame)
    /\ Iterate

\* Lines 276-292.
step_detected ==
    /\ AtFrame
    /\ decode_frame(CurrentFrame)
    /\ detect_face(CurrentFrame)
    /\ detect_action(CurrentFrame, CurrentStep)[1]
    /\ Iterate

\* Lines 276-283 and 293-294.
step_not_detected ==
    /\ AtFrame
    /\ decode_frame(CurrentFrame)
    /\ detect_face(CurrentFrame)
    /\ ~detect_action(CurrentFrame, CurrentStep)[1]
    /\ Iterate

NextAnalyze ==
    \/ no_frames
    \/ enter_loop
    \/ early_exit
    \/ frames_exhausted
    \/ skip_undecodable
    \/ skip_no_face
    \/ step_detected
    \/ step_not_detected

SpecAnalyze == InitAnalyze /\ [][NextAnalyze]_vars

\* The loop, run an action at a time, returns what analyze_frames returns.
LoopIsAnalyzeFrames ==
    loop_pc = "done" => result = analyze_frames(base64_frames, challenge_steps)


\* ==================================================== attack_simulation
\* One attack-sim call followed through: the request body's validation, the
\* frame loop of analyze_frames on sim_steps, the response built from its
\* outcome; over every list of frames within the bound.
SimFrameKinds == {NoFace, BlinkFrame, TurnRightFrame, SmileFrame}

InitAttackSim ==
    /\ ProtocolIdle
    /\ DrawIdle
    /\ base64_frames \in SeqsUpTo(SimFrameKinds, MaxSimFrames)
    /\ challenge_steps = sim_steps
    /\ frame_idx = 0
    /\ matcher = InitMatcher(<< >>)
    /\ loop_pc = "start"
    /\ result = NoResult

\* AttackSimRequest.frames: Field(min_length=1, max_length=10), 422.
attack_sim_rejects_body ==
    /\ loop_pc = "start"
    /\ ~ValidAttackSimRequest(base64_frames)
    /\ sim_response' = InvalidSimResponse
    /\ loop_pc' = "responded"
    /\ UNCHANGED <<now, challenges, requests, attempts, tokens, sim_count>>
    /\ UNCHANGED <<base64_frames, challenge_steps, frame_idx, matcher, result>>
    /\ UNCHANGED draw_vars

\* Lines 213-258: the handler calls analyze_frames, which sets up its loop.
attack_sim_analyzes ==
    /\ ValidAttackSimRequest(base64_frames)
    /\ enter_loop

\* Lines 263-294: one pass of the frame loop.
process_frame ==
    /\ AtFrame
    /\ Iterate

\* Lines 215-238: the rejection reason and the response.
attack_sim_responds ==
    /\ loop_pc = "done"
    /\ sim_response' = AttackSimResponse(result)
    /\ loop_pc' = "responded"
    /\ UNCHANGED <<now, challenges, requests, attempts, tokens, sim_count>>
    /\ UNCHANGED <<base64_frames, challenge_steps, frame_idx, matcher, result>>
    /\ UNCHANGED draw_vars

NextAttackSim ==
    \/ attack_sim_rejects_body
    \/ attack_sim_analyzes
    \/ process_frame
    \/ early_exit
    \/ frames_exhausted
    \/ attack_sim_responds

SpecAttackSim == InitAttackSim /\ [][NextAttackSim]_vars

\* The call followed through answers what attack_simulation answers.
AttackSimIsStepwise ==
    loop_pc = "responded" =>
        sim_response = IF ValidAttackSimRequest(base64_frames)
                       THEN AttackSimResponse(analyze_frames(base64_frames, sim_steps))
                       ELSE InvalidSimResponse


\* ============================================= generate_challenge_steps
\* The loop of generate_challenge_steps, one action per random.choice, for
\* every count within the bound and every choice.
InitDraw ==
    /\ ProtocolIdle
    /\ AnalysisIdle
    /\ draw_count \in 0..MaxCount
    /\ steps_drawn = << >>
    /\ available = CHALLENGE_POOL
    /\ draw_pc = "loop"

RemainingKeepsChoice(choice) == CHALLENGE_POOL

\* Line 30: the pool less the gesture just chosen.
Remaining(choice) == SelectSeq(CHALLENGE_POOL, LAMBDA a : a # choice)

\* Lines 27-30, one pass of for _ in range(count).
draw_choice(choice) ==
    /\ draw_pc = "loop"
    /\ Len(steps_drawn) < draw_count
    /\ choice \in Range(available)
    /\ steps_drawn' = Append(steps_drawn, choice)
    /\ available' = Remaining(choice)
    /\ UNCHANGED <<draw_count, draw_pc>>
    /\ UNCHANGED protocol_vars
    /\ UNCHANGED analysis_vars

\* Line 31.
draw_return ==
    /\ draw_pc = "loop"
    /\ Len(steps_drawn) = draw_count
    /\ draw_pc' = "done"
    /\ UNCHANGED <<draw_count, steps_drawn, available>>
    /\ UNCHANGED protocol_vars
    /\ UNCHANGED analysis_vars

NextDraw ==
    \/ \E choice \in Range(CHALLENGE_POOL) : draw_choice(choice)
    \/ draw_return

SpecDraw == InitDraw /\ [][NextDraw]_vars

\* The loop, run a choice at a time, returns one of the sequences the
\* protocol specifications take their steps from.
DrawIsGenerateChallengeSteps ==
    draw_pc = "done" => steps_drawn \in generate_challenge_steps(draw_count)


\* =============================================================== claims
\* Call r returned a verification response and its transaction committed.
Completed(r) == requests[r].outcome = "ok"

\* In this step call r arrives, naming challenge id c.
StartsOn(r, c) ==
    /\ requests[r].pc = "idle"
    /\ requests'[r].pc # "idle"
    /\ requests'[r].challenge_id = c

\* A credential hash of call r is stored.
HasToken(r) == \E t \in tokens : t.by = r

\* The committed steps' frame_idx values grow with the step index.
Increasing(step_results) ==
    \A i \in DOMAIN step_results, j \in DOMAIN step_results :
        (i < j /\ step_results[i].detected /\ step_results[j].detected)
            => step_results[i].frame_idx < step_results[j].frame_idx

\* The last of the challenge steps is committed in the returned outcome.
LastStepCommitted ==
    /\ loop_pc = "done"
    /\ Len(challenge_steps) > 0
    /\ Len(result.step_results) = Len(challenge_steps)
    /\ result.step_results[Len(challenge_steps)].detected

\* F[:k+1] for k the frame index at which the last step committed.
UpToLastCommit ==
    SubSeq(base64_frames, 1, result.step_results[Len(challenge_steps)].frame_idx + 1)

\* The lists of undecodable and face-absent frames that get prepended.
Prefixes == SeqsUpTo({Undecodable, NoFace}, MaxPrepend)

\* No gesture occurs twice in s.
NoDuplicates(s) == \A i \in DOMAIN s, j \in DOMAIN s : i # j => s[i] # s[j]

\* The specification's closed set of gesture kinds.
GestureKind == {"blink", "turn_left", "turn_right", "smile", "brow_raise", "mouth_open"}

\* Frame number i (from 0) of the call shows the gesture of step number k
\* (from 1) to the detectors.
Shows(i, k) ==
    /\ i \in 0..(Len(base64_frames) - 1)
    /\ decode_frame(base64_frames[i + 1])
    /\ detect_face(base64_frames[i + 1])
    /\ detect_action(base64_frames[i + 1], challenge_steps[k])[1]

\* The frame index at which step number k (from 1) committed in
\* step_results; -1 before the first step.
CommitIdx(step_results, k) == IF k = 0 THEN -1 ELSE step_results[k].frame_idx

\* The length of the run of frames showing step k's gesture that ends at
\* frame number i, counted back over undecodable frames, cut short by a
\* face-absent or non-detecting frame and by frame number floor.
RECURSIVE DetectionRun(_, _, _)
DetectionRun(i, k, floor) ==
    IF i <= floor THEN 0
    ELSE IF ~decode_frame(base64_frames[i + 1]) THEN DetectionRun(i - 1, k, floor)
    ELSE IF Shows(i, k) THEN 1 + DetectionRun(i - 1, k, floor)
    ELSE 0

\* In step_results exactly the first n steps are committed, each at a frame
\* before frame number upto, and the others are as initialised for steps.
CommittedPrefix(step_results, n, steps, upto) ==
    /\ Len(step_results) = Len(steps)
    /\ n \in 0..Len(steps)
    /\ \A k \in DOMAIN step_results :
          IF k <= n
          THEN /\ step_results[k].detected
               /\ step_results[k].step = steps[k]
               /\ step_results[k].frame_idx \in 0..(upto - 1)
          ELSE step_results[k] =
                  [step |-> steps[k], detected |-> FALSE, confidence |-> 0,
                   frame_idx |-> -1]

\* What the detectors can be shown in one decoded frame with a face: the
\* eyes and smiles the cascades find and where the face stands.
FaceFrames ==
    {MkFrame(TRUE, TRUE, eyes, smiles, offset) :
        eyes \in 0..2, smiles \in 0..3, offset \in {-400, 0, 400}}

\* The frame lists that hold each step's frame MIN_CONSECUTIVE_FRAMES times
\* over, for every choice of one frame per step.
HeldFrameLists(steps) ==
    {[i \in 1..(MIN_CONSECUTIVE_FRAMES * Len(steps)) |->
          held[((i - 1) \div MIN_CONSECUTIVE_FRAMES) + 1]] :
        held \in [1..Len(steps) -> FaceFrames]}

\* C1: single use under concurrency.  Of the verify calls on one challenge
\* id, however they overlap, at most one consumes the challenge and returns
\* a verification response.
SingleUseUnderConcurrency ==
    \A r1 \in RequestIds, r2 \in RequestIds :
        (r1 # r2 /\ requests[r1].challenge_id = requests[r2].challenge_id
         /\ Completed(r1)) => ~Completed(r2)

\* C2: sequential replay protection.  A verify call with a valid frame list
\* that starts once another call on the same challenge id has consumed it and
\* completed ends with ChallengeReplay at once, no frame analysed.
SequentialReplay ==
    [][\A r \in RequestIds, c \in ChallengeIds :
          (StartsOn(r, c)
           /\ \E q \in RequestIds : Completed(q) /\ requests[q].challenge_id = c)
          => (/\ requests'[r].pc = "done"
              /\ requests'[r].outcome = "ChallengeReplay"
              /\ requests'[r].cv_result = NoResult)]_vars

ReplayAfterCompletion ==
    \E q \in RequestIds, r \in RequestIds :
        /\ Completed(q)
        /\ requests[r].outcome = "ChallengeReplay"
        /\ requests[r].challenge_id = requests[q].challenge_id

\* C3: forfeit on abandon.  A verify call that had set used = true on its
\* challenge and was then cancelled or failed leaves the stored challenge
\* used.
ForfeitOnAbandon ==
    \A r \in RequestIds :
        (requests[r].outcome = "PipelineFailed" /\ requests[r].used)
            => challenges[requests[r].challenge_id].used

\* C4: the stored used flag is monotonic.  No step of generate_challenge,
\* verify (passing, failing, rejected or aborted) or attack_sim takes a
\* challenge's stored used flag from true to false.
UsedNeverReverts ==
    [][\A c \in ChallengeIds : challenges[c].used => challenges'[c].used]_vars

UsedSurvivesAbortAndSim ==
    \E c \in ChallengeIds, r \in RequestIds :
        /\ challenges[c].used
        /\ requests[r].challenge_id = c
        /\ requests[r].outcome = "PipelineFailed"
        /\ sim_count > 0

\* C5: expired challenge.  A verify call with a valid frame list that starts
\* on a stored, unused challenge whose expires_at is earlier than now ends
\* with ChallengeExpired; it analyses no frame and leaves the challenge rows
\* (the used flag with them) and the attempt records as they were.
ExpiredChallengeRejected ==
    [][\A r \in RequestIds, c \in ChallengeIds :
          (StartsOn(r, c)
           /\ challenges[c].status = "committed"
           /\ ~challenges[c].used
           /\ challenges[c].expires_at < now)
          => (/\ requests'[r].pc = "done"
              /\ requests'[r].outcome = "ChallengeExpired"
              /\ requests'[r].cv_result = NoResult
              /\ ~requests'[r].used
              /\ challenges' = challenges
              /\ attempts' = attempts)]_vars

ExpiredSeen ==
    \E r \in RequestIds :
        /\ requests[r].outcome = "ChallengeExpired"
        /\ ~challenges[requests[r].challenge_id].used
        /\ \A a \in attempts : a.by # r

\* C6: the order of the consume decision.  A verify call with a valid frame
\* list ends with ChallengeNotFound when no stored challenge has the id;
\* else with ChallengeReplay when the challenge is used, expired or not; else
\* with ChallengeExpired when expires_at < now; else (expires_at = now
\* included) it sets used = true and goes on to analyse against the stored
\* steps.
ConsumeDecisionOrder ==
    [][\A r \in RequestIds, c \in ChallengeIds :
          StartsOn(r, c) =>
            IF challenges[c].status # "committed"
            THEN requests'[r].pc = "done" /\ requests'[r].outcome = "ChallengeNotFound"
            ELSE IF challenges[c].used
            THEN requests'[r].pc = "done" /\ requests'[r].outcome = "ChallengeReplay"
            ELSE IF challenges[c].expires_at < now
            THEN requests'[r].pc = "done" /\ requests'[r].outcome = "ChallengeExpired"
            ELSE /\ requests'[r].pc = "analyze"
                 /\ requests'[r].used
                 /\ requests'[r].steps = challenges[c].steps
                 /\ requests'[r].outcome = "none"]_vars

AcceptedAtDeadline ==
    \E r \in RequestIds :
        /\ requests[r].pc = "analyze"
        /\ requests[r].checked_at = challenges[requests[r].challenge_id].expires_at

\* C7: invalid input is rejected before consumption.  A verify request with
\* an empty frame list or more than 60 frames ends as InvalidInput in the
\* step it arrives in, which leaves every challenge row, the attempt records
\* and the credentials as they were.
InvalidInputRejectedFirst ==
    [][\A r \in RequestIds :
          (/\ requests[r].pc = "idle"
           /\ requests'[r].pc # "idle"
           /\ (Len(requests'[r].frames) = 0
               \/ Len(requests'[r].frames) > VERIFY_MAX_FRAMES))
          => (/\ requests'[r].pc = "done"
              /\ requests'[r].outcome = "InvalidInput"
              /\ ~requests'[r].used
              /\ challenges' = challenges
              /\ attempts' = attempts
              /\ tokens' = tokens)]_vars

OversizedRejected ==
    \E r \in RequestIds, c \in ChallengeIds :
        /\ requests[r].outcome = "InvalidInput"
        /\ Len(requests[r].frames) > VERIFY_MAX_FRAMES
        /\ challenges[c].status = "committed"
        /\ ~challenges[c].used

\* C8: credential only on pass.  A verify call creates a credential exactly
\* when its analysis passed; a completed call has its credential hash stored
\* exactly when its analysis passed; calls ending in any error have none; and
\* every stored credential hash is that of a completed call that passed.
CredentialOnlyOnPass ==
    /\ \A r \in RequestIds :
          requests[r].pc \in {"flush", "commit"}
              => (requests[r].token <=> requests[r].cv_result.passed)
    /\ \A r \in RequestIds :
          Completed(r) => (HasToken(r) <=> requests[r].cv_result.passed)
    /\ \A r \in RequestIds :
          ~Completed(r) => ~HasToken(r)
    /\ \A r \in RequestIds :
          requests[r].pc \in {"idle", "analyze"} \/ (requests[r].pc = "done" /\ ~Completed(r))
              => ~requests[r].token

TokenStoredForPassOnly ==
    /\ \E r \in RequestIds :
          Completed(r) /\ requests[r].cv_result.passed /\ HasToken(r)
    /\ \E r \in RequestIds :
          requests[r].outcome \in {"ChallengeReplay", "PipelineFailed"} /\ ~HasToken(r)

\* C9: strictly increasing commits.  At every point of the frame loop and in
\* the returned outcome, the frame_idx values of the committed steps, read
\* in step order, are strictly increasing.
StrictlyIncreasingCommits ==
    /\ Increasing(matcher.step_results)
    /\ Increasing(result.step_results)

TwoStepsCommitted ==
    /\ loop_pc = "done"
    /\ StepsPassed(result.step_results) >= 2

\* C10: score bounds.  Every outcome analyze_frames returns has
\* 0 <= liveness_score <= 100.
ScoreBounds ==
    loop_pc = "done" => (result.liveness_score >= 0 /\ result.liveness_score <= 1000)

HighScoreReturned ==
    /\ loop_pc = "done"
    /\ result.passed
    /\ result.liveness_score >= 950

\* C11: the pass rule.  In every outcome analyze_frames returns, passed is
\* true exactly when steps_passed equals the number of challenge steps,
\* temporal_valid is true and liveness_score >= 60.0.
PassRule ==
    loop_pc = "done" =>
        (result.passed <=>
            (/\ StepsPassed(result.step_results) = Len(challenge_steps)
             /\ result.temporal_valid
             /\ result.liveness_score >= 600))

FailsOnStepsAlone ==
    /\ loop_pc = "done"
    /\ ~result.passed
    /\ result.temporal_valid
    /\ result.liveness_score >= 600
    /\ StepsPassed(result.step_results) < Len(challenge_steps)

\* C12: the definition of temporal validity.  In every outcome of
\* analyze_frames on a non-empty frame list: with two or more steps
\* committed, temporal_valid is true exactly when the committed frame_idx
\* values are strictly increasing; with one or none committed, temporal_valid
\* equals steps_passed > 0, so it is false when no step committed.
TemporalValidityDefinition ==
    (loop_pc = "done" /\ Len(base64_frames) > 0) =>
        IF StepsPassed(result.step_results) >= 2
        THEN result.temporal_valid <=> Increasing(result.step_results)
        ELSE result.temporal_valid <=> (StepsPassed(result.step_results) > 0)

StaticPhotoNotTemporallyValid ==
    /\ loop_pc = "done"
    /\ Len(base64_frames) = MaxFrames
    /\ result.face_detected_count = Len(base64_frames)
    /\ StepsPassed(result.step_results) = 0
    /\ Len(challenge_steps) > 0
    /\ ~result.temporal_valid

\* C13: early-exit equivalence as claimed.  When the last step commits at
\* frame index k, analyze_frames(F, S) returns the same outcome, total_frames
\* and liveness_score included, as analyze_frames(F[:k+1], S).
EarlyExitSameOutcome ==
    LastStepCommitted =>
        analyze_frames(UpToLastCommit, challenge_steps) = result

\* C13, amended: when the last step commits at frame index k, the two calls
\* return the same passed, step_results, face_detected_count and
\* temporal_valid; total_frames is len(F) in the one and k + 1 in the other,
\* and the liveness_score of the longer list is not the greater.
EarlyExitSameMatch ==
    LastStepCommitted =>
        LET cut == analyze_frames(UpToLastCommit, challenge_steps)
        IN  /\ cut.passed = result.passed
            /\ cut.step_results = result.step_results
            /\ cut.face_detected_count = result.face_detected_count
            /\ cut.temporal_valid = result.temporal_valid
            /\ result.total_frames = Len(base64_frames)
            /\ cut.total_frames = Len(UpToLastCommit)
            /\ result.liveness_score <= cut.liveness_score

FacesAfterLastCommit ==
    /\ LastStepCommitted
    /\ Len(UpToLastCommit) < Len(base64_frames)
    /\ detect_face(base64_frames[Len(base64_frames)])
    /\ result.liveness_score < analyze_frames(UpToLastCommit, challenge_steps).liveness_score

\* C14: monotonicity.  Prepending undecodable or face-absent frames to F
\* gives a steps_passed that is not smaller than that of
\* analyze_frames(F, S): the same steps commit, each at its frame index in F
\* plus the number of prepended frames.
PrependMonotone ==
    loop_pc = "done" =>
        \A pre \in Prefixes :
            LET shifted == analyze_frames(pre \o base64_frames, challenge_steps)
            IN  /\ StepsPassed(shifted.step_results) >= StepsPassed(result.step_results)
                /\ \A i \in DOMAIN shifted.step_results :
                      shifted.step_results[i].detected <=>
                          (i \in DOMAIN result.step_results
                           /\ result.step_results[i].detected)
                /\ \A i \in DOMAIN result.step_results :
                      result.step_results[i].detected =>
                          shifted.step_results[i].frame_idx =
                              result.step_results[i].frame_idx + Len(pre)

CommitsBehindSkippedFrames ==
    /\ loop_pc = "done"
    /\ Len(base64_frames) > 2
    /\ base64_frames[1] = NoFace
    /\ base64_frames[2] = Undecodable
    /\ StepsPassed(result.step_results) >= 1
    /\ StepsPassed(result.step_results) =
          StepsPassed(analyze_frames(SubSeq(base64_frames, 3, Len(base64_frames)),
                                     challenge_steps).step_results)

\* C15: no repeated gestures, as claimed.  Every sequence
\* generate_challenge_steps(k) returns holds no gesture more than once and
\* has length min(k, pool size).
DrawnWithoutReplacement ==
    draw_pc = "done" =>
        /\ NoDuplicates(steps_drawn)
        /\ Len(steps_drawn) = Min(draw_count, Len(CHALLENGE_POOL))

\* C15, amended: every sequence generate_challenge_steps(k) returns has
\* length k, also for k above the pool size, and no gesture in it equals the
\* one right before it; a gesture may come back after another one.
NoConsecutiveRepeat ==
    /\ \A i \in 1..(Len(steps_drawn) - 1) : steps_drawn[i] # steps_drawn[i + 1]
    /\ Len(steps_drawn) <= draw_count
    /\ draw_pc = "done" => Len(steps_drawn) = draw_count

GestureComesBack ==
    /\ draw_pc = "done"
    /\ draw_count = CHALLENGE_LENGTH
    /\ steps_drawn[1] = steps_drawn[3]

\* C16: the closed gesture set, as claimed.  Every element of every
\* generated step sequence is one of blink, turn_left, turn_right, smile,
\* brow_raise, mouth_open.
StepsInGestureKind ==
    Range(steps_drawn) \subseteq GestureKind

\* C16, amended: every element of every generated step sequence is one of
\* blink, turn_left, turn_right, smile, brow_raise, tongue_out.
StepsInChallengePool ==
    Range(steps_drawn) \subseteq
        {"blink", "turn_left", "turn_right", "smile", "brow_raise", "tongue_out"}

TongueOutDrawn ==
    /\ draw_pc = "done"
    /\ draw_count = CHALLENGE_LENGTH
    /\ steps_drawn[CHALLENGE_LENGTH] = "tongue_out"

\* C17: the empty frame list.  analyze_frames called with no frames returns,
\* for any steps, passed = false, liveness_score = 0, face_detected_count = 0,
\* temporal_valid = false and error = "No frames provided", and never enters
\* the frame loop: nothing is decoded or detected.
EmptyFrameList ==
    Len(base64_frames) = 0 =>
        /\ loop_pc # "loop"
        /\ frame_idx = 0
        /\ matcher = InitMatcher(<< >>)
        /\ loop_pc = "done" =>
              /\ ~result.passed
              /\ result.liveness_score = 0
              /\ result.face_detected_count = 0
              /\ ~result.temporal_valid
              /\ result.error = "No frames provided"

NoFramesReturned ==
    /\ loop_pc = "done"
    /\ Len(base64_frames) = 0
    /\ Len(challenge_steps) > 0
    /\ result.error = "No frames provided"

\* C18: attack_sim leaves the protocol state alone.  A step that serves an
\* attack_sim call, accepted or turned away, passing or not, with verify
\* calls under way or not, changes no challenge row (no used flag), no
\* attempt record, no credential and no verify call; an accepted call
\* answers with the analysis against blink, turn_right, smile.
AttackSimSideEffectFree ==
    [][sim_count' # sim_count =>
          /\ challenges' = challenges
          /\ attempts' = attempts
          /\ tokens' = tokens
          /\ requests' = requests
          /\ sim_response'.status = 200 =>
                \E frames \in AttackFrameLists :
                    LET cv == analyze_frames(frames, <<"blink", "turn_right", "smile">>)
                    IN  /\ sim_response'.passed = cv.passed
                        /\ sim_response'.liveness_score = cv.liveness_score]_vars

SimServedDuringVerify ==
    /\ sim_count > 0
    /\ sim_response.status = 200
    /\ sim_response.passed
    /\ attempts = {}
    /\ \E r \in RequestIds :
          /\ requests[r].pc = "flush"
          /\ ~challenges[requests[r].challenge_id].used

\* C19: the priority of attack_sim's rejection reason.  Whenever the outcome
\* has passed = false, rejection_reason is "no face" if face_detected_count
\* is 0; else "no temporal variation" if temporal_valid is false; else
\* "liveness too low" if liveness_score < 60; else "failed challenge
\* ordering".  None of the four is reported when passed = true.
RejectionReasonPriority ==
    (loop_pc = "responded" /\ sim_response.status = 200) =>
        IF result.passed
        THEN sim_response.rejection_reason \notin
                {"no face", "no temporal variation", "liveness too low",
                 "failed challenge ordering"}
        ELSE sim_response.rejection_reason =
                CASE result.face_detected_count = 0 -> "no face"
                  [] result.face_detected_count # 0 /\ ~result.temporal_valid ->
                        "no temporal variation"
                  [] result.face_detected_count # 0 /\ result.temporal_valid
                        /\ result.liveness_score < 600 -> "liveness too low"
                  [] OTHER -> "failed challenge ordering"

OrderingFailureReported ==
    /\ loop_pc = "responded"
    /\ ~sim_response.passed
    /\ sim_response.rejection_reason = "failed challenge ordering"

\* C20: active step only.  A pass of the frame loop tests the frame against
\* the active step alone: it leaves every other step's result as it was, and
\* commits or counts towards the active step only when the frame shows the
\* active step's gesture.  So a committed step was shown in the frame it
\* committed at and the one before, both after the step before it
\* committed: a gesture shown only before its turn stays undetected and the
\* outcome is passed = false.
ActiveStepOnly ==
    /\ [][(loop_pc = "loop" /\ frame_idx' = frame_idx + 1) =>
            LET k == matcher.current_step_idx + 1
            IN  /\ \A j \in DOMAIN matcher.step_results :
                      j # k => matcher'.step_results[j] = matcher.step_results[j]
                /\ matcher'.step_results[k] # matcher.step_results[k] => Shows(frame_idx, k)
                /\ matcher'.consecutive_detection_count > 0 => Shows(frame_idx, k)
                /\ matcher'.current_step_idx \in {k - 1, k}]_vars
    /\ [](loop_pc \in {"done", "responded"} =>
            /\ \A k \in DOMAIN result.step_results :
                  result.step_results[k].detected =>
                      LET at == result.step_results[k].frame_idx
                          before == IF k = 1 THEN -1
                                    ELSE result.step_results[k - 1].frame_idx
                      IN  /\ k > 1 => result.step_results[k - 1].detected
                          /\ at - 1 > before
                          /\ Shows(at, k)
                          /\ Shows(at - 1, k)
            /\ (\E k \in DOMAIN result.step_results :
                    ~result.step_results[k].detected) => ~result.passed)

OutOfOrderExecution ==
    /\ loop_pc = "responded"
    /\ Shows(0, 3)
    /\ Shows(1, 3)
    /\ ~Shows(0, 1)
    /\ StepsPassed(result.step_results) = 2
    /\ ~result.step_results[3].detected
    /\ ~result.passed
    /\ ~sim_response.passed

\* C21: consecutive-frame confirmation.  The counter is the length of the
\* active gesture's run of detections, broken by a face-absent or
\* non-detecting frame and started anew after a commit.  A step commits
\* exactly at the first frame where that run reaches MIN_CONSECUTIVE_FRAMES,
\* with that frame's index and confidence, and the counter is back at 0; a
\* step whose run never gets that far (a detection on single frames only)
\* is not committed.
ConsecutiveFrameConfirmation ==
    /\ loop_pc = "loop" =>
          LET k == matcher.current_step_idx + 1
              floor == CommitIdx(matcher.step_results, k - 1)
          IN  /\ matcher.consecutive_detection_count < MIN_CONSECUTIVE_FRAMES
              /\ k <= Len(challenge_steps) =>
                    matcher.consecutive_detection_count =
                        DetectionRun(frame_idx - 1, k, floor)
              /\ floor = frame_idx - 1 => matcher.consecutive_detection_count = 0
    /\ loop_pc = "done" =>
          \A k \in DOMAIN result.step_results :
              (k = 1 \/ result.step_results[k - 1].detected) =>
                  LET floor == CommitIdx(result.step_results, k - 1)
                      at == result.step_results[k].frame_idx
                  IN  IF result.step_results[k].detected
                      THEN /\ DetectionRun(at, k, floor) = MIN_CONSECUTIVE_FRAMES
                           /\ Shows(at, k)
                           /\ result.step_results[k].confidence =
                                 detect_action(base64_frames[at + 1], challenge_steps[k])[2]
                           /\ \A i \in (floor + 1)..(at - 1) :
                                 DetectionRun(i, k, floor) < MIN_CONSECUTIVE_FRAMES
                      ELSE \A i \in (floor + 1)..(Len(base64_frames) - 1) :
                               DetectionRun(i, k, floor) < MIN_CONSECUTIVE_FRAMES

SingleTransientDetections ==
    /\ loop_pc = "done"
    /\ Len(base64_frames) = 4
    /\ Len(challenge_steps) = 1
    /\ Shows(0, 1)
    /\ decode_frame(base64_frames[2]) /\ detect_face(base64_frames[2]) /\ ~Shows(1, 1)
    /\ Shows(2, 1)
    /\ ~detect_face(base64_frames[4])
    /\ ~result.step_results[1].detected
    /\ ~result.passed

\* C22: the committed steps form a prefix.  At every point of the frame loop
\* and in the outcome it returns, the steps with detected = true are exactly
\* the first current_step_idx ones, each committed at a frame already
\* visited, and every other step has detected = false, confidence = 0.0 and
\* frame_idx = -1; the loop visits the frames one at a time in index order,
\* and a pass of it commits at most the active step.
CommittedStepsFormPrefix ==
    /\ [](loop_pc = "loop" =>
            CommittedPrefix(matcher.step_results, matcher.current_step_idx,
                            challenge_steps, frame_idx))
    /\ []((loop_pc = "done" /\ Len(base64_frames) > 0) =>
            /\ CommittedPrefix(result.step_results, matcher.current_step_idx,
                               challenge_steps, frame_idx)
            /\ StepsPassed(result.step_results) = matcher.current_step_idx)
    /\ [][/\ frame_idx' \in {frame_idx, frame_idx + 1}
          /\ matcher'.current_step_idx # matcher.current_step_idx =>
                /\ frame_idx' = frame_idx + 1
                /\ matcher'.current_step_idx = matcher.current_step_idx + 1
                /\ matcher'.step_results[matcher'.current_step_idx].frame_idx = frame_idx]_vars

FirstStepOnlyCommitted ==
    /\ loop_pc = "loop"
    /\ frame_idx = Len(base64_frames)
    /\ Len(challenge_steps) = 2
    /\ matcher.current_step_idx = 1
    /\ matcher.step_results[1].detected
    /\ matcher.step_results[2].frame_idx = -1
    /\ matcher.face_detected_count > matcher.step_results[1].frame_idx + 1

\* C23: undecodable frames change nothing.  A pass of the frame loop over a
\* frame that fails to decode leaves current_step_idx, the consecutive
\* counter, face_detected_count and step_results as they were and goes on to
\* the next frame, the call still running; so a run of detections with
\* only undecodable frames inside it still commits the step.
UndecodableFrameChangesNothing ==
    /\ [][(loop_pc = "loop" /\ frame_idx' = frame_idx + 1
            /\ ~decode_frame(base64_frames[frame_idx + 1])) =>
              /\ matcher' = matcher
              /\ loop_pc' = "loop"
              /\ result' = result]_vars
    /\ [](loop_pc = "done" =>
            \A i \in 0..(Len(base64_frames) - 1), j \in 0..(Len(base64_frames) - 1) :
                (/\ Len(challenge_steps) > 0
                 /\ i < j
                 /\ Shows(i, 1) /\ Shows(j, 1)
                 /\ \A m \in (i + 1)..(j - 1) : ~decode_frame(base64_frames[m + 1]))
                => (result.step_results[1].detected
                    /\ result.step_results[1].frame_idx <= j))

CommitAcrossUndecodable ==
    /\ loop_pc = "done"
    /\ Len(base64_frames) = 4
    /\ Len(challenge_steps) = 1
    /\ Shows(0, 1)
    /\ ~decode_frame(base64_frames[2])
    /\ ~decode_frame(base64_frames[3])
    /\ Shows(3, 1)
    /\ result.step_results[1].detected
    /\ result.step_results[1].frame_idx = 3
    /\ result.face_detected_count = 2

\* C24: a completed run always passes.  For a non-empty step list and any
\* frame list, analyze_frames returns passed = true exactly when every step
\* was committed; with every step committed temporal_valid is true and
\* liveness_score is at least 60, so neither test fails a completed run.
CompletedRunPasses ==
    (loop_pc = "done" /\ Len(challenge_steps) > 0) =>
        /\ result.passed <=> (StepsPassed(result.step_results) = Len(challenge_steps))
        /\ StepsPassed(result.step_results) = Len(challenge_steps) =>
              /\ result.temporal_valid
              /\ result.liveness_score >= 600

CompletedRunWithIdleFrames ==
    /\ loop_pc = "done"
    /\ Len(challenge_steps) = 1
    /\ StepsPassed(result.step_results) = 1
    /\ result.face_detected_count = MIN_CONSECUTIVE_FRAMES
    /\ result.total_frames > result.face_detected_count + 1
    /\ result.liveness_score < 850
    /\ result.passed

\* C26: temporal_valid only says that a step committed.  In every outcome
\* of analyze_frames on a non-empty frame list, temporal_valid is true
\* exactly when steps_passed >= 1: the comparison of neighbouring committed
\* frame indices never fails, and a run that committed some of the steps
\* only is reported temporally valid.
TemporalValidIffAnyStep ==
    (loop_pc = "done" /\ Len(base64_frames) > 0) =>
        /\ result.temporal_valid <=> (StepsPassed(result.step_results) >= 1)
        /\ \A k \in DOMAIN result.step_results :
              (k > 1 /\ result.step_results[k].detected) =>
                  /\ result.step_results[k - 1].detected
                  /\ result.step_results[k - 1].frame_idx < result.step_results[k].frame_idx

PartialRunTemporallyValid ==
    /\ loop_pc = "done"
    /\ Len(challenge_steps) = 2
    /\ StepsPassed(result.step_results) = 1
    /\ result.temporal_valid
    /\ ~result.passed
    /\ result.liveness_score < 600

\* C25: every issued challenge is satisfiable.  For each gesture that
\* generate_challenge_steps emits some frame makes detect_action return
\* detected = true, and for every step sequence generate_challenge issues
\* (count = 3) some frame list makes analyze_frames return passed = true.
IssuedChallengeSatisfiable ==
    /\ \A k \in DOMAIN steps_drawn :
          \E f \in FaceFrames : detect_action(f, steps_drawn[k])[1]
    /\ (draw_pc = "done" /\ draw_count = CHALLENGE_LENGTH) =>
          \E frames \in HeldFrameLists(steps_drawn) :
              analyze_frames(frames, steps_drawn).passed

====
